---- MODULE Spec2Model ----
(***************************************************************************)
(* Model of the dataset pipeline of qubo_nn (src/qubo_nn/pipeline.py):     *)
(* Classification and ReverseRegression.                                   *)
(*                                                                         *)
(* Python values are modelled as follows.  A tuple or list is a sequence   *)
(* (1-based), so the literal clause[0] is clause[1] here and its variable  *)
(* clause[0][0] is clause[1][1], its polarity clause[0][1] is clause[1][2].*)
(* A numpy array indexed from 0 is a function on 0..n-1.  A problem        *)
(* instance (a dict) is a record.  float32 arithmetic on the small         *)
(* integers used here is exact and is modelled by integer arithmetic.      *)
(***************************************************************************)
EXTENDS Integers, Sequences, FiniteSets, TLC

VARIABLES
    cfg,            \* self.cfg and the fields __init__ copies from it
    pc,             \* position of the running method
    all_problems,   \* all_problems: per class, the list of problem instances
    gen_problems,   \* the instances (or matrices) as the problem classes generated them
    value_log,      \* per instance, the `value` computed for each clause
    n_problems,     \* _gen_data: the argument n_problems
    class_idx,      \* _gen_data: the loop variable i
    qubo_matrices,  \* _gen_data: the local qubo_matrices of the current class
    swaps,          \* _gen_data: per matrix, <<rand_idx1, rand_idx2>> or <<>>
    stored,         \* _gen_data: per class, qubo_matrices as it reached line 82
    data,           \* _gen_data: the array data
    labels,         \* _gen_data: the array labels
    all_problems_flat, \* gen_data_lmdb: the flattened, then padded, parameters
    output_size,    \* gen_data_lmdb: the width flatten_problem_parameters returned
    chunk,          \* gen_data_chunks: the loop variable chunk
    archives,       \* the datasets/<cfg_id>.<chunk>.pickle.gz files written
    db,             \* the px.Writer: "none", "open" or "closed"
    store,          \* the samples put into the store, or <<>>
    cfg_pickle,     \* datasets/<cfg_id>/cfg.pickle: <<>> or <<output_size>>
    n_runs,         \* run_experiment: the argument n_runs
    run_idx,        \* run_experiment: the number of runs started
    model_fname,    \* self.model_fname
    saved,          \* the names models were saved under, in order
    events,         \* run_experiment: the calls made by the current run
    err             \* the exception that ended the running method, or "none"

custVars == <<all_problems, gen_problems, value_log>>
genVars == <<n_problems, class_idx, qubo_matrices, swaps, stored, data, labels>>
flatVars == <<all_problems_flat, output_size>>
ioVars == <<chunk, archives, db, store, cfg_pickle, n_runs, run_idx, model_fname,
           saved, events>>
vars == <<cfg, pc, err, custVars, genVars, flatVars, ioVars>>

\* Values of the variables a specification does not use.
GenIdle ==
    /\ n_problems = 0
    /\ class_idx = 0
    /\ qubo_matrices = <<>>
    /\ swaps = <<>>
    /\ stored = <<>>
    /\ data = <<>>
    /\ labels = <<>>

FlatIdle ==
    /\ all_problems_flat = <<>>
    /\ output_size = 0

IoIdle ==
    /\ chunk = 0
    /\ archives = <<>>
    /\ db = "none"
    /\ store = <<>>
    /\ cfg_pickle = <<>>
    /\ n_runs = 0
    /\ run_idx = 0
    /\ model_fname = ""
    /\ saved = <<>>
    /\ events = <<>>

(***************************************************************************)
(* Bounds.                                                                 *)
(***************************************************************************)
M2QuboSize == 4
M3QuboSize == 3
MaxClauses == 2

(***************************************************************************)
(* Inputs: clause lists.  A clause is a tuple of (variable, polarity)      *)
(* literals.  The 2-literal variable pairs cover distinct variables in     *)
(* both orders, a repeated variable and the highest indices of the target. *)
(***************************************************************************)
VarPairs == {<<0, 1>>, <<1, 0>>, <<0, 0>>, <<M2QuboSize - 2, M2QuboSize - 1>>}

Clauses2 ==
    {<<<<v[1], p0>>, <<v[2], p1>>>> : v \in VarPairs, p0 \in BOOLEAN, p1 \in BOOLEAN}

\* Every polarity pattern on distinct variables in increasing order, and a
\* few clauses with the variables in another order or repeated.
Clauses3 ==
    {<<<<0, p[1]>>, <<1, p[2]>>, <<2, p[3]>>>> : p \in BOOLEAN \X BOOLEAN \X BOOLEAN}
    \cup
    { <<<<2, TRUE>>, <<0, FALSE>>, <<1, FALSE>>>>,
      <<<<2, FALSE>>, <<0, TRUE>>, <<1, TRUE>>>>,
      <<<<0, TRUE>>, <<0, TRUE>>, <<1, FALSE>>>>,
      <<<<1, FALSE>>, <<1, FALSE>>, <<1, FALSE>>>> }

SeqsUpTo(S, n) == UNION {[1..k -> S] : k \in 0..n}

\* all_problems for a single configured class: one instance holding the
\* whole clause list (split = 0), or two instances holding the first
\* `split` clauses and the rest.
Splits(cl) == {0} \cup {k \in {1} : k <= Len(cl)}

SingleClassProblems(cl, split) ==
    IF split = 0 THEN <<<<[clauses |-> cl]>>>>
    ELSE <<<<[clauses |-> SubSeq(cl, 1, split)],
             [clauses |-> SubSeq(cl, split + 1, Len(cl))]>>>>

(***************************************************************************)
(* ReverseRegression.gen_apply_m2sat_customization                         *)
(***************************************************************************)
Zeros2(qs) == [r \in 0..(qs - 1) |-> [c \in 0..(qs - 1) |-> 0]]

\* new_p[0][a][b] += v ; new_p[0][b][a] += v  (two statements, in order)
AddBoth(new_p, a, b, v) ==
    LET s1 == [new_p EXCEPT ![a][b] = @ + v]
    IN  [s1 EXCEPT ![b][a] = @ + v]

\* The labelling the commented-out block of the method used.
M2ClauseOld(new_p, clause) ==
    LET a  == clause[1][1]
        b  == clause[2][1]
        p0 == clause[1][2]
        p1 == clause[2][2]
        s1 == IF p0 /\ p1 THEN AddBoth(new_p, a, b, -2) ELSE new_p
        s2 == IF ~p0 /\ ~p1 THEN AddBoth(s1, a, b, -1) ELSE s1
        s3 == IF p0 /\ ~p1 THEN AddBoth(s2, a, b, 1) ELSE s2
    IN  IF ~p0 /\ p1 THEN AddBoth(s3, a, b, 2) ELSE s3

\* The body of `for clause in clauses`: four `if` statements in sequence.
M2Clause(new_p, clause) ==
    LET a  == clause[1][1]
        b  == clause[2][1]
        p0 == clause[1][2]
        p1 == clause[2][2]
        s1 == IF p0 /\ p1 THEN AddBoth(new_p, a, b, -2) ELSE new_p
        s2 == IF ~p0 /\ ~p1 THEN AddBoth(s1, a, b, 1) ELSE s1
        s3 == IF p0 /\ ~p1 THEN AddBoth(s2, a, b, -1) ELSE s2
    IN  IF ~p0 /\ p1 THEN AddBoth(s3, a, b, 2) ELSE s3

RECURSIVE M2Loop(_, _)
M2Loop(new_p, clauses) ==
    IF clauses = <<>> THEN new_p
    ELSE M2Loop(M2Clause(new_p, Head(clauses)), Tail(clauses))

\* list(new_p.flat) of a (1, qs, qs) array: row-major order.
Flat2(new_p, qs) ==
    [k \in 1..(qs * qs) |-> new_p[(k - 1) \div qs][(k - 1) % qs]]

M2Customize(p, qs) ==
    [p EXCEPT !.clauses = Flat2(M2Loop(Zeros2(qs), p.clauses), qs)]

gen_apply_m2sat_customization ==
    /\ pc = "m2_start"
    /\ all_problems' =
          [all_problems EXCEPT
              ![1] = [i \in DOMAIN @ |-> M2Customize(@[i], cfg.qubo_size)]]
    /\ pc' = "m2_done"
    /\ UNCHANGED <<cfg, err, gen_problems, value_log, genVars, flatVars, ioVars>>

InitM2 ==
    /\ cfg = [problems |-> <<"M2SAT">>, qubo_size |-> M2QuboSize]
    /\ pc = "m2_start"
    /\ \E cl \in SeqsUpTo(Clauses2, MaxClauses) : \E split \in Splits(cl) :
          all_problems = SingleClassProblems(cl, split)
    /\ gen_problems = all_problems
    /\ value_log = <<>>
    /\ err = "none"
    /\ GenIdle
    /\ FlatIdle
    /\ IoIdle

NextM2 == gen_apply_m2sat_customization

SpecM2 == InitM2 /\ [][NextM2]_vars

(***************************************************************************)
(* C1.  After gen_apply_m2sat_customization, the clause field of every     *)
(* instance is the row-major flattening of the qubo_size x qubo_size       *)
(* matrix whose entry [r][c] is the sum, over the instance's clauses, of   *)
(* the clause's polarity value (-2 for (T,T), +1 for (F,F), -1 for (T,F),  *)
(* +2 for (F,T)) counted once for (r,c) = (var0,var1) and once for         *)
(* (r,c) = (var1,var0); every other entry is 0.                            *)
(***************************************************************************)
PairValue(p0, p1) ==
    CASE p0 /\ p1   -> -2
      [] ~p0 /\ ~p1 -> 1
      [] p0 /\ ~p1  -> -1
      [] ~p0 /\ p1  -> 2

PairContribution(clause, r, c) ==
    PairValue(clause[1][2], clause[2][2])
        * ((IF r = clause[1][1] /\ c = clause[2][1] THEN 1 ELSE 0)
           + (IF r = clause[2][1] /\ c = clause[1][1] THEN 1 ELSE 0))

RECURSIVE PairSum(_, _, _)
PairSum(clauses, r, c) ==
    IF clauses = <<>> THEN 0
    ELSE PairContribution(Head(clauses), r, c) + PairSum(Tail(clauses), r, c)

C1_WitnessAccumulate ==
    /\ pc = "m2_done"
    /\ \E i \in DOMAIN gen_problems[1] :
          /\ Len(gen_problems[1][i].clauses) = 2
          /\ gen_problems[1][i].clauses[1][1][1] = 0
          /\ gen_problems[1][i].clauses[1][2][1] = 1
          /\ gen_problems[1][i].clauses[2][1][1] = 1
          /\ gen_problems[1][i].clauses[2][2][1] = 0
          /\ all_problems[1][i].clauses[0 * cfg.qubo_size + 1 + 1] = 3

(***************************************************************************)
(* ReverseRegression.gen_apply_m3sat_customization                         *)
(***************************************************************************)
Zeros3(qs) ==
    [x \in 0..(qs - 1) |-> [y \in 0..(qs - 1) |-> [z \in 0..(qs - 1) |-> 0]]]

\* `value` before the first clause of an instance has assigned it.
Unbound == "unbound"

\* A table in which one pattern falls through to 0.
M3ValueWithZero(prev, clause) ==
    LET p0 == clause[1][2]
        p1 == clause[2][2]
        p2 == clause[3][2]
    IN  CASE p0 /\ p1 /\ p2    -> -4
          [] p0 /\ ~p1 /\ p2   -> -3
          [] p0 /\ p1 /\ ~p2   -> -2
          [] p0 /\ ~p1 /\ ~p2  -> -1
          [] ~p0 /\ p1 /\ p2   -> 0
          [] ~p0 /\ ~p1 /\ p2  -> 2
          [] ~p0 /\ ~p1 /\ ~p2 -> 3
          [] ~p0 /\ p1 /\ ~p2  -> 4

\* The eight `if` statements that assign `value`, in sequence; `prev` is
\* the value the previous clause left in the variable.
M3Value(prev, clause) ==
    LET p0 == clause[1][2]
        p1 == clause[2][2]
        p2 == clause[3][2]
        v1 == IF p0 /\ p1 /\ p2 THEN -4 ELSE prev
        v2 == IF p0 /\ ~p1 /\ p2 THEN -3 ELSE v1
        v3 == IF p0 /\ p1 /\ ~p2 THEN -2 ELSE v2
        v4 == IF p0 /\ ~p1 /\ ~p2 THEN -1 ELSE v3
        v5 == IF ~p0 /\ p1 /\ p2 THEN 1 ELSE v4
        v6 == IF ~p0 /\ ~p1 /\ p2 THEN 2 ELSE v5
        v7 == IF ~p0 /\ ~p1 /\ ~p2 THEN 3 ELSE v6
    IN  IF ~p0 /\ p1 /\ ~p2 THEN 4 ELSE v7

\* Only the three rotations of the clause.
RotationsOnly == <<<<1, 2, 3>>, <<2, 3, 1>>, <<3, 1, 2>>>>

\* itertools.permutations(clause, 3): the 6 orderings of the three
\* positions, in lexicographic order of position.
Permutations3 ==
    <<<<1, 2, 3>>, <<1, 3, 2>>, <<2, 1, 3>>, <<2, 3, 1>>, <<3, 1, 2>>, <<3, 2, 1>>>>

\* for permutation in ...: new_p[0][x][y][z] += value
RECURSIVE M3Accumulate(_, _, _, _)
M3Accumulate(new_p, clause, value, perms) ==
    IF perms = <<>> THEN new_p
    ELSE LET perm == Head(perms)
             x == clause[perm[1]][1]
             y == clause[perm[2]][1]
             z == clause[perm[3]][1]
         IN  M3Accumulate([new_p EXCEPT ![x][y][z] = @ + value],
                          clause, value, Tail(perms))

\* for clause in clauses: the tensor and the trace of `value`.
RECURSIVE M3Loop(_, _, _)
M3Loop(st, prev, clauses) ==
    IF clauses = <<>> THEN st
    ELSE LET value == M3Value(prev, Head(clauses))
         IN  M3Loop([new_p  |-> M3Accumulate(st.new_p, Head(clauses), value,
                                             Permutations3),
                     values |-> Append(st.values, value)],
                    value, Tail(clauses))

\* list(new_p.flat) of a (1, qs, qs, qs) array: row-major order.
Flat3(new_p, qs) ==
    [k \in 1..(qs * qs * qs) |->
        new_p[(k - 1) \div (qs * qs)][((k - 1) \div qs) % qs][(k - 1) % qs]]

M3Run(p, qs) == M3Loop([new_p |-> Zeros3(qs), values |-> <<>>], Unbound, p.clauses)

gen_apply_m3sat_customization ==
    /\ pc = "m3_start"
    /\ all_problems' =
          [all_problems EXCEPT
              ![1] = [i \in DOMAIN @ |->
                         [@[i] EXCEPT !.clauses =
                             Flat3(M3Run(all_problems[1][i], cfg.qubo_size).new_p,
                                   cfg.qubo_size)]]]
    /\ value_log' =
          [i \in DOMAIN all_problems[1] |->
              M3Run(all_problems[1][i], cfg.qubo_size).values]
    /\ pc' = "m3_done"
    /\ UNCHANGED <<cfg, err, gen_problems, genVars, flatVars, ioVars>>

InitM3 ==
    /\ cfg = [problems |-> <<"M3SAT">>, qubo_size |-> M3QuboSize]
    /\ pc = "m3_start"
    /\ \E cl \in SeqsUpTo(Clauses3, MaxClauses) : \E split \in Splits(cl) :
          all_problems = SingleClassProblems(cl, split)
    /\ gen_problems = all_problems
    /\ value_log = <<>>
    /\ err = "none"
    /\ GenIdle
    /\ FlatIdle
    /\ IoIdle

NextM3 == gen_apply_m3sat_customization

SpecM3 == InitM3 /\ [][NextM3]_vars

\* The processed clauses: (instance, clause index) pairs.
Processed ==
    {ij \in (DOMAIN gen_problems[1]) \X (1..MaxClauses) :
        ij[2] <= Len(gen_problems[1][ij[1]].clauses)}

ClauseAt(ij) == gen_problems[1][ij[1]].clauses[ij[2]]

ValueAt(ij) == value_log[ij[1]][ij[2]]

Complementary(c, d) == \A k \in 1..3 : c[k][2] = ~d[k][2]

(***************************************************************************)
(* C2 as stated: the value of every clause lies in -4..4 without 0, and    *)
(* the value of the fully negated polarity pattern is the negation of the  *)
(* value of the pattern.                                                   *)
(***************************************************************************)
C2_ComplementNegates ==
    pc = "m3_done" =>
        \A ij \in Processed, kl \in Processed :
            /\ ValueAt(ij) \in (-4..4) \ {0}
            /\ Complementary(ClauseAt(ij), ClauseAt(kl))
                  => ValueAt(kl) = -ValueAt(ij)

(***************************************************************************)
(* C2 amended: the value of every clause lies in -4..4 without 0 and is    *)
(* negative exactly when the first literal is positive, so the fully       *)
(* negated pattern has a value of the opposite sign; it is the exact       *)
(* negation exactly when the first and third polarities differ.            *)
(***************************************************************************)
C2_ComplementOppositeSign ==
    pc = "m3_done" =>
        \A ij \in Processed, kl \in Processed :
            /\ ValueAt(ij) \in (-4..4) \ {0}
            /\ (ValueAt(ij) < 0) = ClauseAt(ij)[1][2]
            /\ Complementary(ClauseAt(ij), ClauseAt(kl))
                  => /\ ValueAt(ij) * ValueAt(kl) < 0
                     /\ (ValueAt(kl) = -ValueAt(ij))
                            = (ClauseAt(ij)[1][2] # ClauseAt(ij)[3][2])

\* Two complementary clauses were processed, one pair negating exactly.
C2_Witness ==
    /\ pc = "m3_done"
    /\ \E ij \in Processed, kl \in Processed :
          /\ Complementary(ClauseAt(ij), ClauseAt(kl))
          /\ ClauseAt(ij)[1][2] /\ ClauseAt(ij)[2][2] /\ ~ClauseAt(ij)[3][2]
          /\ ValueAt(ij) = -2
          /\ ValueAt(kl) = 2

(***************************************************************************)
(* C10.  After gen_apply_m3sat_customization, the clause field of every    *)
(* instance is the row-major flattening of the qubo_size^3 tensor whose    *)
(* entry [x][y][z] is the sum, over the instance's clauses, of the         *)
(* clause's value counted once for each of the 6 orderings of the clause's *)
(* three literals whose variables are (x,y,z); every other entry is 0.     *)
(***************************************************************************)
Orderings ==
    {s \in [1..3 -> 1..3] : \A a \in 1..3, b \in 1..3 : a # b => s[a] # s[b]}

OrderingsAt(clause, x, y, z) ==
    Cardinality({s \in Orderings :
        /\ clause[s[1]][1] = x
        /\ clause[s[2]][1] = y
        /\ clause[s[3]][1] = z})

RECURSIVE TripleSum(_, _, _, _, _)
TripleSum(clauses, values, x, y, z) ==
    IF clauses = <<>> THEN 0
    ELSE Head(values) * OrderingsAt(Head(clauses), x, y, z)
            + TripleSum(Tail(clauses), Tail(values), x, y, z)

C10_M3TargetIsSumOverOrderings ==
    pc = "m3_done" =>
        /\ DOMAIN all_problems[1] = DOMAIN gen_problems[1]
        /\ \A i \in DOMAIN all_problems[1] :
              LET flat == all_problems[1][i].clauses
                  qs   == cfg.qubo_size
              IN  /\ Len(flat) = qs * qs * qs
                  /\ Len(value_log[i]) = Len(gen_problems[1][i].clauses)
                  /\ \A x \in 0..(qs - 1), y \in 0..(qs - 1), z \in 0..(qs - 1) :
                        flat[x * qs * qs + y * qs + z + 1] =
                            TripleSum(gen_problems[1][i].clauses, value_log[i],
                                      x, y, z)

\* The single clause ((0,True),(1,True),(2,True)): -4 at the 6 permutations
\* of (0,1,2) and 0 elsewhere.
C10_Witness ==
    /\ pc = "m3_done"
    /\ gen_problems =
          <<<<[clauses |-> <<<<<<0, TRUE>>, <<1, TRUE>>, <<2, TRUE>>>>>>]>>>>
    /\ LET flat == all_problems[1][1].clauses
           qs   == cfg.qubo_size
       IN  \A x \in 0..(qs - 1), y \in 0..(qs - 1), z \in 0..(qs - 1) :
              flat[x * qs * qs + y * qs + z + 1] =
                  IF {x, y, z} = {0, 1, 2} THEN -4 ELSE 0

(***************************************************************************)
(* Field values of problem instances.  A value carries its Python type: t  *)
(* is "num" (int or float), "list", "tuple", "array" (np.ndarray) or       *)
(* "graph" (networkx Graph, with v nodes 0..v-1 and the edges as items).   *)
(* Outside the clause customizers an instance is the sequence              *)
(* list(problem.values()).                                                 *)
(***************************************************************************)
PyNum(v) == [t |-> "num", v |-> v, items |-> <<>>]

PyList(items) == [t |-> "list", v |-> 0, items |-> items]

PyTuple(items) == [t |-> "tuple", v |-> 0, items |-> items]

PyArray(items) == [t |-> "array", v |-> 0, items |-> items]

PyGraph(n, edges) == [t |-> "graph", v |-> n, items |-> edges]

(***************************************************************************)
(* Classification._gen_data                                                *)
(*                                                                         *)
(* Floating-point values are kept exact: [k |-> "q"] is the rational n/d,  *)
(* [k |-> "sqrt"] is n/sqrt(d), and NaN is the result of 0/0.              *)
(***************************************************************************)
GenQuboSize == 2
MaxProblems == 2
MaxClasses == 2

Num(x) == [k |-> "q", n |-> x, d |-> 1]

NaN == [k |-> "nan", n |-> 0, d |-> 0]

Abs(x) == IF x < 0 THEN -x ELSE x

\* The external problem classes: gen_problems yields instances, and
\* gen_qubo_matrix the matrix of an instance.  Two instances are generated:
\* one whose matrix has pairwise distinct entries, one whose matrix is
\* symmetric.
GenInstances == {<<PyArray(<<PyNum(8), PyNum(9)>>)>>, <<PyNum(5)>>}

MatrixOf(problem, qs) ==
    [r \in 0..(qs - 1) |-> [c \in 0..(qs - 1) |->
        IF problem[1].t = "array" THEN r * qs + c + 1
        ELSE IF r = c THEN -(r + 1) ELSE r + c]]

ClassNames == <<"NP", "MC", "MVC", "SP", "QA">>

\* np.zeros(shape=(rows, qs, qs), dtype=np.float32)
ZeroData(rows, qs) ==
    [x \in 0..(rows - 1) |-> [r \in 0..(qs - 1) |-> [c \in 0..(qs - 1) |-> Num(0)]]]

\* np.zeros(shape=(rows,), dtype=np.long)
ZeroLabels(rows) == [x \in 0..(rows - 1) |-> 0]

\* An exchange without the copy `val`: m[rand_idx1] = m[rand_idx2] followed
\* by m[rand_idx2] = m[rand_idx1].
ScrambleNoCopy(m, rand_idx1, rand_idx2) ==
    LET s1 == [m EXCEPT ![rand_idx1] = m[rand_idx2]]
    IN  [s1 EXCEPT ![rand_idx2] = s1[rand_idx1]]

\* val = m[[rand_idx2, rand_idx1]] ; m[[rand_idx1, rand_idx2]] = val
\* Indexing a 2-d array with one list selects rows.
Scramble(m, rand_idx1, rand_idx2) ==
    LET val == <<m[rand_idx2], m[rand_idx1]>>
        s1  == [m EXCEPT ![rand_idx1] = val[1]]
    IN  [s1 EXCEPT ![rand_idx2] = val[2]]

RECURSIVE SumOver(_, _)
SumOver(S, f) ==
    IF S = {} THEN 0
    ELSE LET x == CHOOSE y \in S : TRUE IN f[x] + SumOver(S \ {x}, f)

\* The index triples of the entries of a stack of matrices.
Cells(ms, qs) == (DOMAIN ms) \X (0..(qs - 1)) \X (0..(qs - 1))

\* np.max(np.abs(qubo_matrices)) of a non-empty stack
MaxAbs(ms, qs) ==
    CHOOSE v \in {Abs(ms[e[1]][e[2]][e[3]]) : e \in Cells(ms, qs)} :
        \A e \in Cells(ms, qs) : Abs(ms[e[1]][e[2]][e[3]]) <= v

\* qubo_matrices /= max ; qubo_matrices = (qubo_matrices + 1) / 2.
\* (x / m + 1) / 2 = (x + m) / (2 m); with m = 0 every x is 0 and 0/0 is NaN.
NormData(ms, qs) ==
    LET m == MaxAbs(ms, qs)
    IN  [j \in DOMAIN ms |-> [r \in 0..(qs - 1) |-> [c \in 0..(qs - 1) |->
            IF m = 0 THEN NaN
            ELSE [k |-> "q", n |-> ms[j][r][c] + m, d |-> 2 * m]]]]

\* (qubo_matrices - mean) / std.  With N entries of sum S and sum of squares
\* Q this is (N x - S) / sqrt(N Q - S^2); a constant stack gives 0/0.
Standardize(ms, qs) ==
    LET cells == Cells(ms, qs)
        N == Cardinality(cells)
        S == SumOver(cells, [e \in cells |-> ms[e[1]][e[2]][e[3]]])
        Q == SumOver(cells, [e \in cells |-> ms[e[1]][e[2]][e[3]] * ms[e[1]][e[2]][e[3]]])
    IN  [j \in DOMAIN ms |-> [r \in 0..(qs - 1) |-> [c \in 0..(qs - 1) |->
            IF N * Q - S * S = 0 THEN NaN
            ELSE [k |-> "sqrt", n |-> N * ms[j][r][c] - S, d |-> N * Q - S * S]]]]

AsFloat(ms, qs) ==
    [j \in DOMAIN ms |-> [r \in 0..(qs - 1) |-> [c \in 0..(qs - 1) |->
        Num(ms[j][r][c])]]]

\* Lines 73-80.
Normalize(ms, qs) ==
    IF cfg.no_norm THEN AsFloat(ms, qs)
    ELSE IF cfg.norm_data THEN NormData(ms, qs)
    ELSE Standardize(ms, qs)

\* Lines 45-54: the state of a fresh call _gen_data(n).
GenDataStart(n) ==
    /\ n_problems' = n
    /\ class_idx' = 0
    /\ all_problems' = <<>>
    /\ qubo_matrices' = <<>>
    /\ swaps' = <<>>
    /\ stored' = <<>>
    /\ data' = ZeroData(Len(cfg.problems) * n, cfg.qubo_size)
    /\ labels' = ZeroLabels(Len(cfg.problems) * n)

\* Lines 55-61: the class generates k <= n_problems instances.
GenQuboMatrices ==
    /\ pc = "gen_loop"
    /\ class_idx < Len(cfg.problems)
    /\ \E k \in 0..n_problems : \E problems \in [1..k -> GenInstances] :
          /\ all_problems' = Append(all_problems, problems)
          /\ qubo_matrices' =
                [j \in 0..(k - 1) |-> MatrixOf(problems[j + 1], cfg.qubo_size)]
    /\ swaps' = <<>>
    /\ pc' = IF cfg.scramble_qubos THEN "gen_scramble" ELSE "gen_store"
    /\ UNCHANGED <<cfg, err, gen_problems, value_log, n_problems, class_idx,
                   stored, data, labels, flatVars, ioVars>>

NoSwap == <<>>

SwapChoices == {NoSwap} \cup ((0..(cfg.qubo_size - 1)) \X (0..(cfg.qubo_size - 1)))

\* Lines 62-68: for j in range(n_problems), a coin and two random indices.
\* qubo_matrices[j] raises IndexError when the class generated fewer than
\* j + 1 matrices.
ScrambleQubos ==
    /\ pc = "gen_scramble"
    /\ \E choice \in [0..(n_problems - 1) -> SwapChoices] :
          LET missing == {j \in 0..(n_problems - 1) :
                             choice[j] # NoSwap /\ j \notin DOMAIN qubo_matrices}
          IN  IF missing = {}
              THEN /\ qubo_matrices' =
                         [j \in DOMAIN qubo_matrices |->
                             IF choice[j] = NoSwap THEN qubo_matrices[j]
                             ELSE Scramble(qubo_matrices[j], choice[j][1], choice[j][2])]
                   /\ swaps' = choice
                   /\ pc' = "gen_store"
                   /\ err' = err
              ELSE LET first == CHOOSE j \in missing : \A j2 \in missing : j <= j2
                   IN  /\ qubo_matrices' =
                             [j \in DOMAIN qubo_matrices |->
                                 IF choice[j] = NoSwap THEN qubo_matrices[j]
                                 ELSE Scramble(qubo_matrices[j], choice[j][1],
                                               choice[j][2])]
                       /\ swaps' = [j \in 0..first |-> choice[j]]
                       /\ pc' = "gen_raised"
                       /\ err' = "IndexError"
    /\ UNCHANGED <<cfg, custVars, n_problems, class_idx, stored, data, labels, flatVars, ioVars>>

\* Lines 69-86: stack, normalize, copy into the class's block, label it.
\* np.max of an empty stack raises ValueError; so does assigning the empty
\* stack, of shape (0,), to a slice of shape (0, qubo_size, qubo_size).
StoreQubos ==
    /\ pc = "gen_store"
    /\ LET k == Cardinality(DOMAIN qubo_matrices)
           idx_start == class_idx * n_problems
           idx_end == (class_idx + 1) * n_problems
           normed == Normalize(qubo_matrices, cfg.qubo_size)
       IN  IF k = 0
           THEN /\ pc' = "gen_raised"
                /\ err' = "ValueError"
                /\ UNCHANGED <<class_idx, stored, data, labels>>
           ELSE /\ stored' = Append(stored, normed)
                /\ data' = [x \in DOMAIN data |->
                              IF idx_start <= x /\ x < idx_start + k
                              THEN normed[x - idx_start] ELSE data[x]]
                /\ labels' = [x \in DOMAIN labels |->
                                IF idx_start <= x /\ x < idx_end
                                THEN class_idx ELSE labels[x]]
                /\ class_idx' = class_idx + 1
                /\ pc' = IF class_idx + 1 = Len(cfg.problems)
                         THEN "gen_done" ELSE "gen_loop"
                /\ err' = err
    /\ UNCHANGED <<cfg, custVars, n_problems, qubo_matrices, swaps, flatVars, ioVars>>

GenConfigs ==
    {[problems |-> SubSeq(ClassNames, 1, nc), qubo_size |-> GenQuboSize,
      scramble_qubos |-> sc, no_norm |-> nn, norm_data |-> nd] :
        nc \in 1..MaxClasses, sc \in BOOLEAN, nn \in BOOLEAN, nd \in BOOLEAN}

InitGen ==
    /\ cfg \in GenConfigs
    /\ pc = "gen_loop"
    /\ err = "none"
    /\ n_problems \in 1..MaxProblems
    /\ class_idx = 0
    /\ all_problems = <<>>
    /\ qubo_matrices = <<>>
    /\ swaps = <<>>
    /\ stored = <<>>
    /\ data = ZeroData(Len(cfg.problems) * n_problems, cfg.qubo_size)
    /\ labels = ZeroLabels(Len(cfg.problems) * n_problems)
    /\ gen_problems = <<>>
    /\ value_log = <<>>
    /\ FlatIdle
    /\ IoIdle

NextGen == GenQuboMatrices \/ ScrambleQubos \/ StoreQubos

SpecGen == InitGen /\ [][NextGen]_vars

\* The matrix the current class generated for position j, before scrambling.
Generated(j) == MatrixOf(all_problems[class_idx + 1][j + 1], cfg.qubo_size)

\* Rows idx1 and idx2 swapped and then columns idx1 and idx2 swapped:
\* result[t(r)][t(c)] = m[r][c] for the transposition t of idx1 and idx2.
SwapRowsAndColumns(m, idx1, idx2) ==
    LET t(x) == IF x = idx1 THEN idx2 ELSE IF x = idx2 THEN idx1 ELSE x
    IN  [r \in DOMAIN m |-> [c \in DOMAIN m |-> m[t(r)][t(c)]]]

IsSymmetric(m) == \A r \in DOMAIN m, c \in DOMAIN m : m[r][c] = m[c][r]

(***************************************************************************)
(* C3.  After the scrambling loop, a matrix selected with indices a and b  *)
(* is the symmetric permutation of the generated matrix (rows a and b      *)
(* swapped, then columns a and b swapped), a symmetric matrix is still     *)
(* symmetric, and a matrix not selected is unchanged.                      *)
(***************************************************************************)
C3_ScrambleIsSymmetricPermutation ==
    (pc = "gen_store" /\ cfg.scramble_qubos) =>
        \A j \in DOMAIN qubo_matrices :
            IF swaps[j] = NoSwap
            THEN qubo_matrices[j] = Generated(j)
            ELSE /\ qubo_matrices[j] =
                        SwapRowsAndColumns(Generated(j), swaps[j][1], swaps[j][2])
                 /\ IsSymmetric(Generated(j)) => IsSymmetric(qubo_matrices[j])

\* What the scrambling loop does instead: the two rows are exchanged and
\* the columns are left alone.
SwapRowsOnly(m, idx1, idx2) ==
    LET t(x) == IF x = idx1 THEN idx2 ELSE IF x = idx2 THEN idx1 ELSE x
    IN  [r \in DOMAIN m |-> m[t(r)]]

C3_ScrambleSwapsRowsOnly ==
    (pc = "gen_store" /\ cfg.scramble_qubos) =>
        \A j \in DOMAIN qubo_matrices :
            qubo_matrices[j] =
                IF swaps[j] = NoSwap THEN Generated(j)
                ELSE SwapRowsOnly(Generated(j), swaps[j][1], swaps[j][2])

(***************************************************************************)
(* C7.  Whatever the configuration, when a class yields k < n_problems     *)
(* matrices the call does not raise; the first k rows of the class's block *)
(* hold its matrices as they reached line 82, in order, the rest of the    *)
(* block is zero, and rows of blocks of classes not yet processed are      *)
(* untouched (zero).                                                       *)
(***************************************************************************)
ZeroMatrix ==
    [r \in 0..(cfg.qubo_size - 1) |-> [c \in 0..(cfg.qubo_size - 1) |-> Num(0)]]

BlocksAsClaimed ==
    /\ \A cl \in 1..class_idx :
          LET k == Len(all_problems[cl])
              start == (cl - 1) * n_problems
          IN  /\ \A x \in start..(start + k - 1) : data[x] = stored[cl][x - start]
              /\ \A x \in (start + k)..(cl * n_problems - 1) : data[x] = ZeroMatrix
    /\ \A x \in DOMAIN data : x >= class_idx * n_problems => data[x] = ZeroMatrix

C7_ShortBatchCompletesIntoPrefix ==
    /\ (pc = "gen_raised" => Len(all_problems[Len(all_problems)]) >= n_problems)
    /\ BlocksAsClaimed

\* The layout part of the claim alone.
C7_BlocksAsClaimedUnlessRaised == BlocksAsClaimed

(***************************************************************************)
(* ReverseRegression.flatten_problem_parameters and the padding loop of    *)
(* ReverseRegression.gen_data_lmdb                                         *)
(***************************************************************************)
MaxParts == 3

\* The field values instances are built from.
PartPool ==
    { PyNum(5),
      PyList(<<>>),
      PyList(<<PyNum(7)>>),
      PyArray(<<PyNum(8), PyNum(9)>>),
      PyList(<<PyList(<<PyNum(1), PyNum(2)>>), PyList(<<PyNum(3)>>)>>),
      PyList(<<PyTuple(<<PyTuple(<<PyNum(0), PyNum(1)>>), PyTuple(<<PyNum(1), PyNum(0)>>)>>)>>),
      PyGraph(3, <<PyTuple(<<PyNum(1), PyNum(2)>>), PyTuple(<<PyNum(0), PyNum(1)>>)>>) }

\* all_problems built from a sequence of field values: marks[i] tells
\* whether value i+1 continues the instance, starts the next instance of
\* the class, or starts the next class.
RECURSIVE BuildProblems(_, _, _)
BuildProblems(acc, ps, marks) ==
    IF ps = <<>> THEN acc
    ELSE LET nc == Len(acc)
             ni == Len(acc[nc])
             next ==
                 IF marks[1] = "field"
                 THEN [acc EXCEPT ![nc][ni] = Append(@, Head(ps))]
                 ELSE IF marks[1] = "instance"
                 THEN [acc EXCEPT ![nc] = Append(@, <<Head(ps)>>)]
                 ELSE Append(acc, <<<<Head(ps)>>>>)
         IN  BuildProblems(next, Tail(ps), Tail(marks))

ProblemsOf(ps, marks) ==
    IF ps = <<>> THEN <<<<>>>>
    ELSE BuildProblems(<<<<<<Head(ps)>>>>>>, Tail(ps), marks)

RECURSIVE Concat(_)
Concat(ss) == IF ss = <<>> THEN <<>> ELSE Head(ss) \o Concat(Tail(ss))

Returned(vals) == [exc |-> "none", vals |-> vals]

Raised(exc) == [exc |-> exc, vals |-> <<>>]

IsSeq(x) == x.t \in {"list", "tuple", "array"}

\* sorted(part.edges): the edge tuples in lexicographic order.
RECURSIVE SortedEdges(_)
SortedEdges(E) ==
    IF E = {} THEN <<>>
    ELSE LET e == CHOOSE x \in E : \A y \in E :
                      \/ x[1] < y[1]
                      \/ (x[1] = y[1] /\ x[2] <= y[2])
         IN  <<e>> \o SortedEdges(E \ {e})

EdgeSet(part) ==
    {<<part.items[i].items[1].v, part.items[i].items[2].v>> : i \in DOMAIN part.items}

\* list(np.asarray(sorted(part.edges)).flat)
EdgesFlat(part) ==
    LET es == SortedEdges(EdgeSet(part))
    IN  Concat([i \in DOMAIN es |-> <<es[i][1], es[i][2]>>])

\* list(nx.to_numpy_matrix(part).flat): the dense symmetric adjacency matrix.
AdjacencyFlat(part) ==
    [k \in 1..(part.v * part.v) |->
        LET u == (k - 1) \div part.v
            w == (k - 1) % part.v
        IN  IF <<u, w>> \in EdgeSet(part) \/ <<w, u>> \in EdgeSet(part)
            THEN 1 ELSE 0]

\* [item for sublist in part for item in sublist], then float(x) for each.
FlattenDepth2(part) ==
    IF \E i \in DOMAIN part.items : ~IsSeq(part.items[i])
    THEN Raised("TypeError")
    ELSE LET flat_list == Concat([i \in DOMAIN part.items |-> part.items[i].items])
         IN  IF \E i \in DOMAIN flat_list : flat_list[i].t # "num"
             THEN Raised("TypeError")
             ELSE Returned([i \in DOMAIN flat_list |-> flat_list[i].v])

\* [item for sublist in part for subsublist in sublist for item in subsublist]
FlattenDepth3(part) ==
    IF \E i \in DOMAIN part.items : ~IsSeq(part.items[i])
    THEN Raised("TypeError")
    ELSE LET subsublists == Concat([i \in DOMAIN part.items |-> part.items[i].items])
         IN  IF \E i \in DOMAIN subsublists : ~IsSeq(subsublists[i])
             THEN Raised("TypeError")
             ELSE FlattenDepth2(PyList(subsublists))

\* Lines 177-193: the contribution of one field, or the exception raised.
\* part[0] and part[0][0] raise IndexError on an empty sequence.
FlattenPart(part, gen_edges) ==
    IF part.t = "graph"
    THEN Returned(IF gen_edges THEN EdgesFlat(part) ELSE AdjacencyFlat(part))
    ELSE IF part.t = "num"
    THEN Returned(<<part.v>>)
    ELSE IF part.items = <<>>
    THEN Raised("IndexError")
    ELSE IF IsSeq(part.items[1])
    THEN IF part.items[1].items = <<>>
         THEN Raised("IndexError")
         ELSE IF part.items[1].items[1].t \in {"tuple", "list"}
         THEN FlattenDepth3(part)
         ELSE FlattenDepth2(part)
    ELSE Returned([i \in DOMAIN part.items |-> part.items[i].v])

\* Lines 174-194: curr_problem_result of one instance.
RECURSIVE FlattenProblem(_, _, _)
FlattenProblem(curr_problem_result, problem, gen_edges) ==
    IF problem = <<>> THEN Returned(curr_problem_result)
    ELSE LET r == FlattenPart(Head(problem), gen_edges)
         IN  IF r.exc # "none" THEN r
             ELSE FlattenProblem(curr_problem_result \o r.vals, Tail(problem),
                                 gen_edges)

Max(a, b) == IF a >= b THEN a ELSE b

\* Lines 170-196: the loop over all instances of all classes.
RECURSIVE FlattenLoop(_, _, _)
FlattenLoop(st, problems, gen_edges) ==
    IF problems = <<>> THEN st
    ELSE LET r == FlattenProblem(<<>>, Head(problems), gen_edges)
         IN  IF r.exc # "none"
             THEN [st EXCEPT !.exc = r.exc]
             ELSE FlattenLoop([exc |-> "none",
                               result |-> Append(st.result, r.vals),
                               output_size |-> Max(st.output_size, Len(r.vals))],
                              Tail(problems), gen_edges)

flatten_problem_parameters ==
    /\ pc = "flat_start"
    /\ LET r == FlattenLoop([exc |-> "none", result |-> <<>>, output_size |-> 0],
                            Concat(all_problems), cfg.gen_edges)
       IN  IF r.exc # "none"
           THEN /\ pc' = "flat_raised"
                /\ err' = r.exc
                /\ UNCHANGED flatVars
           ELSE /\ pc' = "flat_done"
                /\ err' = err
                /\ all_problems_flat' = r.result
                /\ output_size' = r.output_size
    /\ UNCHANGED <<cfg, custVars, genVars, ioVars>>

\* A padding that puts the zeros in front.
PadLeft(prob, size) == [i \in 1..(size - Len(prob)) |-> 0] \o prob

\* np.pad(prob, (0, output_size - len(prob)), 'constant', constant_values=(0, 0))
Pad(prob, size) == prob \o [i \in 1..(size - Len(prob)) |-> 0]

\* Lines 346-354.
PadProblems ==
    /\ pc = "flat_done"
    /\ all_problems_flat' =
          [i \in DOMAIN all_problems_flat |-> Pad(all_problems_flat[i], output_size)]
    /\ pc' = "pad_done"
    /\ UNCHANGED <<cfg, err, custVars, genVars, output_size, ioVars>>

Marks == {"field", "instance", "class"}

InitFlat ==
    /\ pc = "flat_start"
    /\ err = "none"
    /\ \E ps \in SeqsUpTo(PartPool, MaxParts) :
       \E marks \in [1..(Len(ps) - 1) -> Marks] :
          /\ all_problems = ProblemsOf(ps, marks)
          /\ cfg \in {[problems |-> SubSeq(ClassNames, 1, Len(ProblemsOf(ps, marks))),
                        gen_edges |-> ge] :
                         ge \in IF \E i \in DOMAIN ps : ps[i].t = "graph"
                                THEN BOOLEAN ELSE {FALSE}}
    /\ gen_problems = all_problems
    /\ value_log = <<>>
    /\ GenIdle
    /\ FlatIdle
    /\ IoIdle

NextFlat == flatten_problem_parameters \/ PadProblems

SpecFlat == InitFlat /\ [][NextFlat]_vars

\* The scalars of a field value in reading order, to any depth of nesting;
\* a graph gives its sorted edge pairs or its dense adjacency matrix.
RECURSIVE Leaves(_)
Leaves(x) ==
    IF x.t = "num" THEN <<x.v>>
    ELSE IF x.t = "graph"
    THEN (IF cfg.gen_edges THEN EdgesFlat(x) ELSE AdjacencyFlat(x))
    ELSE Concat([i \in DOMAIN x.items |-> Leaves(x.items[i])])

\* The raw flattened values of an instance: its fields' scalars, in field order.
RawValues(problem) == Concat([f \in DOMAIN problem |-> Leaves(problem[f])])

\* The instances in class order and, within a class, generation order.
Instances == Concat(gen_problems)

(***************************************************************************)
(* C4.  After flattening and padding, there is one vector per instance, in *)
(* class order and generation order; output_size is the largest raw        *)
(* flattened length; every vector has length output_size, starts with the  *)
(* instance's raw flattened values in field order and is 0 from there on.  *)
(***************************************************************************)
C4_PaddedToMaxWithZeros ==
    pc = "pad_done" =>
        /\ Len(all_problems_flat) = Len(Instances)
        /\ \A i \in DOMAIN Instances : Len(RawValues(Instances[i])) <= output_size
        /\ \/ \E i \in DOMAIN Instances : Len(RawValues(Instances[i])) = output_size
           \/ (Instances = <<>> /\ output_size = 0)
        /\ \A i \in DOMAIN Instances :
              LET raw == RawValues(Instances[i])
                  vec == all_problems_flat[i]
              IN  /\ Len(vec) = output_size
                  /\ \A x \in 1..Len(raw) : vec[x] = raw[x]
                  /\ \A x \in (Len(raw) + 1)..output_size : vec[x] = 0

\* Two instances of different classes with different raw lengths, the
\* shorter one padded.
C4_Witness ==
    /\ pc = "pad_done"
    /\ Len(gen_problems) >= 2
    /\ \E i \in DOMAIN Instances, j \in DOMAIN Instances :
          /\ 0 < Len(RawValues(Instances[i]))
          /\ Len(RawValues(Instances[i])) < Len(RawValues(Instances[j]))
          /\ Len(all_problems_flat[i]) = Len(all_problems_flat[j])
          /\ all_problems_flat[i][output_size] = 0

(***************************************************************************)
(* C5.  When an instance has a sequence field of length 0 or 1, flattening *)
(* does not raise, and the field contributes no value (length 0) or        *)
(* exactly its one element (length 1).                                     *)
(***************************************************************************)
HasShortField ==
    \E i \in DOMAIN Instances : \E f \in DOMAIN Instances[i] :
        IsSeq(Instances[i][f]) /\ Len(Instances[i][f].items) <= 1

C5_ShortFieldsNeverRaise ==
    HasShortField =>
        /\ pc # "flat_raised"
        /\ pc = "flat_done" =>
              \A i \in DOMAIN Instances :
                  all_problems_flat[i] = RawValues(Instances[i])

\* What holds instead: a length-1 field is flattened, an empty one raises.
C5_EmptyFieldRaises ==
    /\ pc = "flat_raised" =>
          /\ err = "IndexError"
          /\ \E i \in DOMAIN Instances : \E f \in DOMAIN Instances[i] :
                IsSeq(Instances[i][f]) /\ Instances[i][f].items = <<>>
    /\ pc = "flat_done" =>
          \A i \in DOMAIN Instances : all_problems_flat[i] = RawValues(Instances[i])

(***************************************************************************)
(* Classification.gen_data_chunks                                          *)
(***************************************************************************)
MaxTotal == 3
MaxChunks == 2

\* Lines 111-113: the next chunk calls _gen_data(self.n_problems // self.chunks).
ChunkGenData ==
    /\ pc = "chunk_loop"
    /\ chunk < cfg.chunks
    /\ GenDataStart(cfg.n_problems \div cfg.chunks)
    /\ pc' = "gen_loop"
    /\ UNCHANGED <<cfg, err, gen_problems, value_log, flatVars, ioVars>>

\* Lines 113-117: _gen_data returned; (data, labels) is pickled into the
\* archive of this chunk.  The other locals of the call are gone.
ChunkDump ==
    /\ pc = "gen_done"
    /\ archives' = Append(archives, [chunk |-> chunk, data |-> data, labels |-> labels])
    /\ chunk' = chunk + 1
    /\ pc' = IF chunk + 1 = cfg.chunks THEN "chunks_done" ELSE "chunk_loop"
    /\ all_problems' = <<>>
    /\ qubo_matrices' = <<>>
    /\ swaps' = <<>>
    /\ stored' = <<>>
    /\ UNCHANGED <<cfg, err, gen_problems, value_log, n_problems, class_idx, data,
                   labels, flatVars, db, store, cfg_pickle, n_runs, run_idx,
                   model_fname, saved, events>>

ChunkConfigs ==
    {[problems |-> SubSeq(ClassNames, 1, nc), qubo_size |-> GenQuboSize,
      scramble_qubos |-> sc, no_norm |-> TRUE, norm_data |-> FALSE,
      n_problems |-> n, chunks |-> ch] :
        nc \in 1..MaxClasses, sc \in BOOLEAN, n \in 1..MaxTotal, ch \in 1..MaxChunks}

InitChunks ==
    /\ cfg \in ChunkConfigs
    /\ pc = "chunk_loop"
    /\ err = "none"
    /\ all_problems = <<>>
    /\ gen_problems = <<>>
    /\ value_log = <<>>
    /\ GenIdle
    /\ FlatIdle
    /\ IoIdle

NextChunks ==
    ChunkGenData \/ GenQuboMatrices \/ ScrambleQubos \/ StoreQubos \/ ChunkDump

SpecChunks == InitChunks /\ [][NextChunks]_vars

\* The number of records of class c in an archive.
RecordsOf(archive, c) ==
    Cardinality({x \in DOMAIN archive.labels : archive.labels[x] = c})

RECURSIVE TotalRecords(_, _)
TotalRecords(as, c) ==
    IF as = <<>> THEN 0 ELSE RecordsOf(Head(as), c) + TotalRecords(Tail(as), c)

(***************************************************************************)
(* C6.  When gen_data_chunks has returned, exactly cfg.chunks archives     *)
(* were written, with chunk indices 0..chunks-1, and summed over the       *)
(* archives every class has exactly cfg.n_problems records.                *)
(***************************************************************************)
C6_ChunksPreserveClassCounts ==
    pc = "chunks_done" =>
        /\ Len(archives) = cfg.chunks
        /\ \A a \in DOMAIN archives : archives[a].chunk = a - 1
        /\ \A c \in 0..(Len(cfg.problems) - 1) :
              TotalRecords(archives, c) = cfg.n_problems

\* What holds instead: every chunk holds n_problems // chunks records per
\* class, so the total is chunks * (n_problems // chunks).
C6_ChunksHoldFloorShare ==
    pc = "chunks_done" =>
        /\ Len(archives) = cfg.chunks
        /\ \A a \in DOMAIN archives : archives[a].chunk = a - 1
        /\ \A c \in 0..(Len(cfg.problems) - 1) :
              /\ \A a \in DOMAIN archives :
                    RecordsOf(archives[a], c) = cfg.n_problems \div cfg.chunks
              /\ TotalRecords(archives, c)
                    = cfg.chunks * (cfg.n_problems \div cfg.chunks)

(***************************************************************************)
(* Classification.gen_data_lmdb and ReverseRegression.gen_data_lmdb, for   *)
(* problem lists that match none of the customizers of lines 293-342.      *)
(* cfg.reverse tells which of the two classes the pipeline object is.      *)
(***************************************************************************)
CustomizedLists == {<<"M2SAT">>, <<"M3SAT">>, <<"QA">>, <<"SP">>}

\* Lines 97-100 and 291-342: _gen_data has returned.
GenDataReturns ==
    /\ pc = "gen_done"
    /\ cfg.problems \notin CustomizedLists
    /\ pc' = IF cfg.reverse THEN "flat_start" ELSE "lmdb_open"
    /\ UNCHANGED <<cfg, err, custVars, genVars, flatVars, ioVars>>

FlatCells == {e \in (DOMAIN all_problems_flat) \X (1..output_size) : TRUE}

\* np.max(np.abs(all_problems_flat)) of a non-empty array
FlatMaxAbs ==
    CHOOSE v \in {Abs(all_problems_flat[e[1]][e[2]]) : e \in FlatCells} :
        \A e \in FlatCells : Abs(all_problems_flat[e[1]][e[2]]) <= v

\* Lines 354-370: min-max normalization of the padded parameters.
\* x / m * mult is kept as (x mult) / m, (x / m + 1) / 2 as (x + m) / (2 m).
NormalizeProblems ==
    /\ pc = "pad_done"
    /\ IF cfg.no_norm
       THEN /\ all_problems_flat' =
                  [i \in DOMAIN all_problems_flat |->
                      [x \in 1..output_size |-> Num(all_problems_flat[i][x])]]
            /\ pc' = "lmdb_open"
            /\ err' = err
       ELSE IF FlatCells = {}
       THEN /\ pc' = "lmdb_raised"
            /\ err' = "ValueError"
            /\ UNCHANGED all_problems_flat
       ELSE /\ all_problems_flat' =
                  [i \in DOMAIN all_problems_flat |-> [x \in 1..output_size |->
                      IF FlatMaxAbs = 0 THEN NaN
                      ELSE IF cfg.use_norm_multiply
                      THEN [k |-> "q", n |-> all_problems_flat[i][x] * cfg.norm_multiply,
                            d |-> FlatMaxAbs]
                      ELSE [k |-> "q", n |-> all_problems_flat[i][x] + FlatMaxAbs,
                            d |-> 2 * FlatMaxAbs]]]
            /\ pc' = "lmdb_open"
            /\ err' = err
    /\ UNCHANGED <<cfg, custVars, genVars, output_size, ioVars>>

\* Lines 101-105 and 376-380: db = px.Writer(...)
OpenWriter ==
    /\ pc = "lmdb_open"
    /\ db' = "open"
    /\ pc' = "lmdb_put"
    /\ UNCHANGED <<cfg, err, custVars, genVars, flatVars, chunk, archives, store,
                   cfg_pickle, n_runs, run_idx, model_fname, saved, events>>

\* Lines 106 and 381: db.put_samples(...) returns.
PutSamples ==
    /\ pc = "lmdb_put"
    /\ store' = [input |-> data, target |-> labels,
                 prob |-> IF cfg.reverse THEN all_problems_flat ELSE <<>>]
    /\ pc' = "lmdb_close"
    /\ UNCHANGED <<cfg, err, custVars, genVars, flatVars, chunk, archives, db,
                   cfg_pickle, n_runs, run_idx, model_fname, saved, events>>

\* Lines 106 and 381: db.put_samples(...) raises (the map size limit is
\* exceeded); the exception leaves gen_data_lmdb, which has no handler.
PutSamplesRaises ==
    /\ pc = "lmdb_put"
    /\ pc' = "lmdb_raised"
    /\ err' = "MapFullError"
    /\ UNCHANGED <<cfg, custVars, genVars, flatVars, ioVars>>

\* Lines 107 and 382: db.close()
CloseWriter ==
    /\ pc = "lmdb_close"
    /\ db' = "closed"
    /\ pc' = IF cfg.reverse THEN "lmdb_dump" ELSE "lmdb_done"
    /\ UNCHANGED <<cfg, err, custVars, genVars, flatVars, chunk, archives, store,
                   cfg_pickle, n_runs, run_idx, model_fname, saved, events>>

\* Lines 384-385: pickle.dump(output_size, f) into cfg.pickle
DumpOutputSize ==
    /\ pc = "lmdb_dump"
    /\ cfg_pickle' = <<output_size>>
    /\ pc' = "lmdb_done"
    /\ UNCHANGED <<cfg, err, custVars, genVars, flatVars, chunk, archives, db,
                   store, n_runs, run_idx, model_fname, saved, events>>

NormMultiply == 5

LmdbConfigs ==
    {[problems |-> SubSeq(ClassNames, 1, nc), qubo_size |-> GenQuboSize,
      scramble_qubos |-> sc, no_norm |-> nn, norm_data |-> nd,
      n_problems |-> n, reverse |-> rv, gen_edges |-> FALSE,
      use_norm_multiply |-> um, norm_multiply |-> NormMultiply] :
        nc \in 1..MaxClasses, sc \in BOOLEAN, nn \in BOOLEAN, nd \in BOOLEAN,
        n \in 1..MaxProblems, rv \in BOOLEAN, um \in BOOLEAN}

\* gen_data_lmdb has just called _gen_data(self.n_problems).
InitLmdb ==
    /\ cfg \in {c \in LmdbConfigs :
                   /\ (c.no_norm => ~c.norm_data /\ ~c.use_norm_multiply)
                   /\ (~c.reverse => ~c.use_norm_multiply)}
    /\ pc = "gen_loop"
    /\ err = "none"
    /\ n_problems = cfg.n_problems
    /\ class_idx = 0
    /\ all_problems = <<>>
    /\ qubo_matrices = <<>>
    /\ swaps = <<>>
    /\ stored = <<>>
    /\ data = ZeroData(Len(cfg.problems) * n_problems, cfg.qubo_size)
    /\ labels = ZeroLabels(Len(cfg.problems) * n_problems)
    /\ gen_problems = <<>>
    /\ value_log = <<>>
    /\ FlatIdle
    /\ IoIdle

NextLmdb ==
    \/ GenQuboMatrices \/ ScrambleQubos \/ StoreQubos \/ GenDataReturns
    \/ flatten_problem_parameters \/ PadProblems \/ NormalizeProblems
    \/ OpenWriter \/ PutSamples \/ PutSamplesRaises \/ CloseWriter \/ DumpOutputSize

SpecLmdb == InitLmdb /\ [][NextLmdb]_vars

(***************************************************************************)
(* C9.  No execution leaves gen_data_lmdb, by returning or by an           *)
(* exception, with the writer still open; and cfg.pickle is written only   *)
(* after the store has been written and closed.                            *)
(***************************************************************************)
LmdbLeft == pc \in {"lmdb_done", "lmdb_raised", "gen_raised", "flat_raised"}

C9_WriterClosedOnEveryPath ==
    /\ LmdbLeft => db # "open"
    /\ cfg_pickle # <<>> => (db = "closed" /\ store # <<>>)

\* What holds instead: the writer is closed when put_samples returns, and
\* cfg.pickle follows the close.
C9_WriterClosedOnReturn ==
    /\ pc = "lmdb_done" => (db = "closed" /\ store # <<>>)
    /\ cfg_pickle # <<>> => (db = "closed" /\ store # <<>> /\ cfg.reverse)
    /\ (pc = "lmdb_raised" /\ err = "MapFullError") => db = "open"

(***************************************************************************)
(* Classification.run_experiment and ReverseRegression.run_experiment      *)
(***************************************************************************)
MaxRuns == 3

\* The names get_model_fname can produce (timestamp and random suffix vary).
ModelFnames == {"run-a", "run-b"}

\* Lines 120 and 388-395: the data loader; in reverse mode cfg.pickle is
\* read, which raises FileNotFoundError when the dataset was never written.
LoadDataset ==
    /\ pc = "run_start"
    /\ IF cfg.reverse /\ cfg_pickle = <<>>
       THEN /\ pc' = "run_raised"
            /\ err' = "FileNotFoundError"
            /\ UNCHANGED output_size
       ELSE /\ pc' = "run_loop"
            /\ err' = err
            /\ output_size' = IF cfg.reverse THEN cfg_pickle[1] ELSE output_size
    /\ UNCHANGED <<cfg, custVars, genVars, all_problems_flat, ioVars>>

\* Lines 122 and 398: self.model_fname = self.get_model_fname()
GetModelFname ==
    /\ pc = "run_loop"
    /\ run_idx < n_runs
    /\ \E name \in ModelFnames : model_fname' = name
    /\ run_idx' = run_idx + 1
    /\ events' = <<"get_model_fname">>
    /\ pc' = "run_logger"
    /\ UNCHANGED <<cfg, err, custVars, genVars, flatVars, chunk, archives, db,
                   store, cfg_pickle, n_runs, saved>>

\* Lines 121 and 397: the loop is exhausted.
RunsReturn ==
    /\ pc = "run_loop"
    /\ run_idx = n_runs
    /\ pc' = "run_done"
    /\ UNCHANGED <<cfg, err, custVars, genVars, flatVars, ioVars>>

\* Lines 123-124 and 399-400: Logger(...) and log_config()
InitLogger ==
    /\ pc = "run_logger"
    /\ events' = events \o <<"Logger", "log_config">>
    /\ pc' = "run_optimizer"
    /\ UNCHANGED <<cfg, err, custVars, genVars, flatVars, chunk, archives, db,
                   store, cfg_pickle, n_runs, run_idx, model_fname, saved>>

\* Lines 125 and 401: Optimizer(...) or ReverseOptimizer(..., output_size)
ConstructOptimizer ==
    /\ pc = "run_optimizer"
    /\ events' = Append(events, IF cfg.reverse THEN "ReverseOptimizer" ELSE "Optimizer")
    /\ pc' = "run_train"
    /\ UNCHANGED <<cfg, err, custVars, genVars, flatVars, chunk, archives, db,
                   store, cfg_pickle, n_runs, run_idx, model_fname, saved>>

\* Lines 126 and 403: optimizer.train()
Train ==
    /\ pc = "run_train"
    /\ events' = Append(events, "train")
    /\ pc' = "run_save"
    /\ UNCHANGED <<cfg, err, custVars, genVars, flatVars, chunk, archives, db,
                   store, cfg_pickle, n_runs, run_idx, model_fname, saved>>

\* Lines 127-128 and 404-405: what follows optimizer.save().
AfterSave(reverse) == IF reverse THEN "run_close" ELSE "run_eval"

\* Lines 127 and 404: optimizer.save(self.model_fname)
Save ==
    /\ pc = "run_save"
    /\ events' = Append(events, "save")
    /\ saved' = Append(saved, model_fname)
    /\ pc' = AfterSave(cfg.reverse)
    /\ UNCHANGED <<cfg, err, custVars, genVars, flatVars, chunk, archives, db,
                   store, cfg_pickle, n_runs, run_idx, model_fname>>

\* Lines 128 and 140-147: Classification._eval(optimizer)
Eval ==
    /\ pc = "run_eval"
    /\ events' = events \o <<"eval", "log_confusion_matrix">>
    /\ pc' = "run_close"
    /\ UNCHANGED <<cfg, err, custVars, genVars, flatVars, chunk, archives, db,
                   store, cfg_pickle, n_runs, run_idx, model_fname, saved>>

\* Lines 129 and 405: self.logger.close()
CloseLogger ==
    /\ pc = "run_close"
    /\ events' = Append(events, "close")
    /\ pc' = "run_loop"
    /\ UNCHANGED <<cfg, err, custVars, genVars, flatVars, chunk, archives, db,
                   store, cfg_pickle, n_runs, run_idx, model_fname, saved>>

InitRun ==
    /\ cfg \in {[problems |-> <<"NP">>, reverse |-> rv] : rv \in BOOLEAN}
    /\ pc = "run_start"
    /\ err = "none"
    /\ all_problems = <<>>
    /\ gen_problems = <<>>
    /\ value_log = <<>>
    /\ GenIdle
    /\ FlatIdle
    /\ chunk = 0
    /\ archives = <<>>
    /\ db = "none"
    /\ store = <<>>
    /\ cfg_pickle \in IF cfg.reverse THEN {<<>>, <<2>>} ELSE {<<>>}
    /\ n_runs \in 0..MaxRuns
    /\ run_idx = 0
    /\ model_fname = ""
    /\ saved = <<>>
    /\ events = <<>>

NextRun ==
    \/ LoadDataset \/ GetModelFname \/ RunsReturn \/ InitLogger
    \/ ConstructOptimizer \/ Train \/ Save \/ Eval \/ CloseLogger

SpecRun == InitRun /\ [][NextRun]_vars

\* The steps the claim names, in the claimed order.
ClaimedRun == <<"get_model_fname", "Logger", "train", "save", "eval", "close">>

ClaimedSteps == {ClaimedRun[i] : i \in DOMAIN ClaimedRun}

\* The subsequence of the events of the current run that are claimed steps.
NamedEvents == SelectSeq(events, LAMBDA e : e \in ClaimedSteps)

IsPrefix(a, b) == Len(a) <= Len(b) /\ a = SubSeq(b, 1, Len(a))

(***************************************************************************)
(* C8.  In both modes the steps of a run happen in the order run           *)
(* identifier, logger, train, save, evaluate, close; the model is saved    *)
(* under the run's identifier; and a run that is over (the next one may    *)
(* start) has performed all six steps.                                     *)
(***************************************************************************)
C8_RunStepsInOrder ==
    /\ IsPrefix(NamedEvents, ClaimedRun)
    /\ (pc \in {"run_loop", "run_done"} /\ run_idx > 0) => NamedEvents = ClaimedRun
    /\ Len(saved) <= run_idx
    /\ saved # <<>> /\ Len(saved) = run_idx => saved[Len(saved)] = model_fname

\* What holds instead: the claimed order in classification mode, and the
\* same order without the evaluation in reverse-regression mode.
RunOfMode ==
    IF cfg.reverse THEN <<"get_model_fname", "Logger", "train", "save", "close">>
    ELSE ClaimedRun

C8_RunStepsPerMode ==
    /\ IsPrefix(NamedEvents, RunOfMode)
    /\ (pc \in {"run_loop", "run_done"} /\ run_idx > 0) => NamedEvents = RunOfMode
    /\ saved # <<>> /\ Len(saved) = run_idx => saved[Len(saved)] = model_fname

(***************************************************************************)
(* The scrambler's swap (lines 67-68) applied twice with the same indices  *)
(* to one matrix.  gen_problems holds the matrix as it was generated,      *)
(* qubo_matrices the matrix being swapped in place, swaps the two indices, *)
(* class_idx the number of applications made.                              *)
(***************************************************************************)
SwapQuboSize == 3
MaxRowKind == 2

\* Matrices of side qs whose rows are drawn from MaxRowKind + 1 different
\* rows, so that two rows of a matrix may be equal or different.
SwapMatrices(qs) ==
    {[r \in 0..(qs - 1) |-> [c \in 0..(qs - 1) |-> kind[r] * qs + c]] :
        kind \in [0..(qs - 1) -> 0..MaxRowKind]}

\* Lines 65-66: rand_idx1 and rand_idx2, each in [0, qubo_size - 1].
PickIndices ==
    /\ pc = "swap_pick"
    /\ \E rand_idx1 \in 0..(cfg.qubo_size - 1), rand_idx2 \in 0..(cfg.qubo_size - 1) :
          swaps' = [j \in {0} |-> <<rand_idx1, rand_idx2>>]
    /\ pc' = "swap_apply"
    /\ UNCHANGED <<cfg, err, custVars, n_problems, class_idx, qubo_matrices, stored,
                   data, labels, flatVars, ioVars>>

\* Lines 67-68, on qubo_matrices[0] with the indices picked.
ApplySwap ==
    /\ pc = "swap_apply"
    /\ class_idx < 2
    /\ qubo_matrices' =
          [qubo_matrices EXCEPT ![0] = Scramble(@, swaps[0][1], swaps[0][2])]
    /\ class_idx' = class_idx + 1
    /\ UNCHANGED <<cfg, pc, err, custVars, n_problems, swaps, stored, data, labels,
                   flatVars, ioVars>>

InitSwap ==
    /\ pc = "swap_pick"
    /\ err = "none"
    /\ \E qs \in 1..SwapQuboSize : \E m \in SwapMatrices(qs) :
          /\ cfg = [qubo_size |-> qs, scramble_qubos |-> TRUE]
          /\ gen_problems = <<m>>
          /\ qubo_matrices = [j \in {0} |-> m]
    /\ all_problems = <<>>
    /\ value_log = <<>>
    /\ n_problems = 1
    /\ class_idx = 0
    /\ swaps = <<>>
    /\ stored = <<>>
    /\ data = <<>>
    /\ labels = <<>>
    /\ FlatIdle
    /\ IoIdle

NextSwap == PickIndices \/ ApplySwap

SpecSwap == InitSwap /\ [][NextSwap]_vars

(***************************************************************************)
(* C11.  For every matrix and every pair of indices (a, b) in              *)
(* [0, qubo_size), a = b included, applying the scrambler's swap with      *)
(* (a, b) twice in a row yields exactly the matrix it started from.        *)
(***************************************************************************)
C11_SwapTwiceIsIdentity ==
    (pc = "swap_apply" /\ class_idx = 2) => qubo_matrices[0] = gen_problems[1]

\* Two applications have been made with different indices of two different
\* rows, so that one application alone changes the matrix.
C11_Witness ==
    /\ pc = "swap_apply"
    /\ class_idx = 2
    /\ swaps[0][1] # swaps[0][2]
    /\ gen_problems[1][swaps[0][1]] # gen_problems[1][swaps[0][2]]
    /\ Scramble(gen_problems[1], swaps[0][1], swaps[0][2]) # gen_problems[1]
    /\ qubo_matrices[0] = gen_problems[1]

\* The same with equal indices.
C11_WitnessEqualIndices ==
    /\ pc = "swap_apply"
    /\ class_idx = 2
    /\ swaps[0][1] = swaps[0][2]
    /\ qubo_matrices[0] = gen_problems[1]

(***************************************************************************)
(* ReverseRegression.gen_data_lmdb with the customizers of lines 293-342:  *)
(* the problem list is ["M2SAT"], ["M3SAT"], ["QA"], ["SP"] or a list of   *)
(* several classes.  Scrambling is off, so that a class that yields fewer  *)
(* than n_problems instances does not end _gen_data at line 67.            *)
(***************************************************************************)
MaxQASize == 3

\* The instances a class generates.  An M2SAT or M3SAT instance is a dict
\* with the field clauses; the other classes' instances are the sequence of
\* their field values.
CustomInstances(name) ==
    IF name = "M2SAT"
    THEN {[clauses |-> <<cl>>] :
              cl \in {c \in Clauses2 : c[1][1] = 0 /\ c[2][1] = 1 /\ c[1][2]}}
    ELSE IF name = "M3SAT"
    THEN {[clauses |-> <<cl>>] :
              cl \in {c \in Clauses3 : c[1][1] = 0 /\ c[2][1] = 1 /\ c[1][2] /\ c[2][2]}}
    ELSE GenInstances

\* gen_qubo_matrix of an instance (external): for a clause instance a
\* matrix of pairwise distinct entries that depends on the last polarity.
CustomMatrixOf(name, problem, qs) ==
    IF name \in {"M2SAT", "M3SAT"}
    THEN [r \in 0..(qs - 1) |-> [c \in 0..(qs - 1) |->
             r * qs + c + (IF problem.clauses[1][Len(problem.clauses[1])][2]
                           THEN 1 ELSE 2)]]
    ELSE MatrixOf(problem, qs)

\* Lines 55-61 for the class lists of this specification.
GenCustomMatrices ==
    /\ pc = "gen_loop"
    /\ class_idx < Len(cfg.problems)
    /\ LET name == cfg.problems[class_idx + 1]
       IN  \E k \in 0..n_problems : \E problems \in [1..k -> CustomInstances(name)] :
              /\ all_problems' = Append(all_problems, problems)
              /\ qubo_matrices' =
                    [j \in 0..(k - 1) |->
                        CustomMatrixOf(name, problems[j + 1], cfg.qubo_size)]
    /\ swaps' = <<>>
    /\ pc' = IF cfg.scramble_qubos THEN "gen_scramble" ELSE "gen_store"
    /\ UNCHANGED <<cfg, err, gen_problems, value_log, n_problems, class_idx,
                   stored, data, labels, flatVars, ioVars>>

\* list(problem.values()) of a customized clause instance (line 174): one
\* field, the list of floats list(new_p.flat).
ValuesOf(p) == <<PyList([i \in DOMAIN p.clauses |-> PyNum(p.clauses[i])])>>

\* A triu_indices that keeps the diagonal (k = 0).
TriuIndicesWithDiagonal(n) ==
    LET RECURSIVE Scan(_)
        Scan(k) ==
            IF k = n * n THEN <<>>
            ELSE (IF (k % n) - (k \div n) >= 0 THEN <<<<k \div n, k % n>>>> ELSE <<>>)
                 \o Scan(k + 1)
    IN  Scan(0)

\* zip(*np.triu_indices(n, 1)): the positions (i, j) of the n x n mask
\* j - i >= 1 that are set, in the row-major order nonzero() returns them.
TriuIndices(n) ==
    LET RECURSIVE Scan(_)
        Scan(k) ==
            IF k = n * n THEN <<>>
            ELSE (IF (k % n) - (k \div n) >= 1 THEN <<<<k \div n, k % n>>>> ELSE <<>>)
                 \o Scan(k + 1)
    IN  Scan(0)

\* quadrant = d[i*size:(i+1)*size, j*size:(j+1)*size]
Quadrant(d, i, j, size) ==
    [a \in 0..(size - 1) |-> [b \in 0..(size - 1) |-> d[i * size + a][j * size + b]]]

\* Lines 327-332: tmp_data of one matrix d.
SimplifyQA(d, size) ==
    LET triu_idx == TriuIndices(size)
        x(quadrant) == [e \in DOMAIN TriuIndices(size) |->
                           quadrant[TriuIndices(size)[e][1]][TriuIndices(size)[e][2]]]
        tmp_data == Concat([e \in DOMAIN triu_idx |->
                        x(Quadrant(d, triu_idx[e][1], triu_idx[e][2], size))])
    IN  [z \in 0..(Len(tmp_data) - 1) |-> tmp_data[z + 1]]

\* data[:len_]
Truncate(a, len_) == [x \in {y \in DOMAIN a : y < len_} |-> a[x]]

\* Lines 291-342: _gen_data has returned; the four `if` statements.
ApplyCustomizers ==
    /\ pc = "gen_done"
    /\ IF cfg.problems = <<"M2SAT">>
       THEN /\ all_problems' =
                  [all_problems EXCEPT
                      ![1] = [i \in DOMAIN @ |->
                                 ValuesOf(M2Customize(@[i], cfg.qubo_size))]]
            /\ UNCHANGED <<data, labels>>
       ELSE IF cfg.problems = <<"M3SAT">>
       THEN /\ data' = Truncate(data, Len(all_problems[1]))
            /\ labels' = Truncate(labels, Len(all_problems[1]))
            /\ all_problems' =
                  [all_problems EXCEPT
                      ![1] = [i \in DOMAIN @ |->
                                 ValuesOf([clauses |->
                                     Flat3(M3Run(all_problems[1][i], cfg.qubo_size).new_p,
                                           cfg.qubo_size)])]]
       ELSE IF cfg.problems = <<"QA">>
       THEN /\ data' = [k \in DOMAIN data |-> SimplifyQA(data[k], cfg.size)]
            /\ UNCHANGED <<all_problems, labels>>
       ELSE IF cfg.problems = <<"SP">>
       THEN /\ data' = Truncate(data, Len(all_problems[1]))
            /\ labels' = Truncate(labels, Len(all_problems[1]))
            /\ UNCHANGED all_problems
       ELSE UNCHANGED <<all_problems, data, labels>>
    /\ pc' = "flat_start"
    /\ UNCHANGED <<cfg, err, gen_problems, value_log, n_problems, class_idx,
                   qubo_matrices, swaps, stored, flatVars, ioVars>>

\* The problem lists, each with the matrix side of its classes.
CustomLists ==
    {[problems |-> <<"M2SAT">>, qubo_size |-> M2QuboSize, size |-> 1],
     [problems |-> <<"M3SAT">>, qubo_size |-> M3QuboSize, size |-> 1],
     [problems |-> <<"SP">>, qubo_size |-> GenQuboSize, size |-> 1]}
    \cup {[problems |-> <<"QA">>, qubo_size |-> sz * sz, size |-> sz] :
              sz \in 1..MaxQASize}
    \cup {[problems |-> SubSeq(ClassNames, 1, nc), qubo_size |-> GenQuboSize,
           size |-> 1] : nc \in 2..MaxClasses}

CustomConfigs ==
    {[problems |-> l.problems, qubo_size |-> l.qubo_size, size |-> l.size,
      scramble_qubos |-> FALSE, no_norm |-> nn, norm_data |-> TRUE,
      n_problems |-> n, reverse |-> TRUE, gen_edges |-> FALSE,
      use_norm_multiply |-> um, norm_multiply |-> NormMultiply] :
        l \in CustomLists, nn \in BOOLEAN, n \in 1..MaxProblems, um \in BOOLEAN}

\* gen_data_lmdb has just called _gen_data(self.n_problems).
InitCustom ==
    /\ cfg \in {c \in CustomConfigs : c.no_norm => ~c.use_norm_multiply}
    /\ pc = "gen_loop"
    /\ err = "none"
    /\ n_problems = cfg.n_problems
    /\ class_idx = 0
    /\ all_problems = <<>>
    /\ qubo_matrices = <<>>
    /\ swaps = <<>>
    /\ stored = <<>>
    /\ data = ZeroData(Len(cfg.problems) * n_problems, cfg.qubo_size)
    /\ labels = ZeroLabels(Len(cfg.problems) * n_problems)
    /\ gen_problems = <<>>
    /\ value_log = <<>>
    /\ FlatIdle
    /\ IoIdle

NextCustom ==
    \/ GenCustomMatrices \/ StoreQubos \/ ApplyCustomizers
    \/ flatten_problem_parameters \/ PadProblems \/ NormalizeProblems
    \/ OpenWriter \/ PutSamples \/ PutSamplesRaises \/ CloseWriter \/ DumpOutputSize

SpecCustom == InitCustom /\ [][NextCustom]_vars

\* Per row of the auxiliary target array, the instance it was flattened
\* from: <<class, index in the class>>, both zero-based.
Owners ==
    Concat([cl \in DOMAIN all_problems |->
               [i \in DOMAIN all_problems[cl] |-> <<cl - 1, i - 1>>]])

Rows(a) == Cardinality(DOMAIN a)

\* The three arrays have the same number of rows, and row r of the input
\* and label arrays belongs to the instance row r of the auxiliary target
\* array was flattened from.
RowsParallel ==
    /\ Rows(data) = Rows(all_problems_flat)
    /\ Rows(labels) = Rows(all_problems_flat)
    /\ \A r \in DOMAIN data :
          /\ r + 1 \in DOMAIN Owners
          /\ Owners[r + 1] = <<r \div n_problems, r % n_problems>>
          /\ labels[r] = Owners[r + 1][1]
          /\ cfg.problems # <<"QA">> =>
                data[r] = stored[Owners[r + 1][1] + 1][Owners[r + 1][2]]

(***************************************************************************)
(* C12.  For every problem list and every number of instances the classes  *)
(* generate, the input, label and auxiliary target arrays passed to        *)
(* put_samples have the same number of rows and row r of each refers to    *)
(* the same problem instance.                                              *)
(***************************************************************************)
C12_ArraysParallel == pc = "lmdb_put" => RowsParallel

\* What holds instead: the arrays are parallel when the list is one of the
\* two that truncate (["M3SAT"], ["SP"]) or when every class generated
\* n_problems instances.
C12_ParallelWhenTruncatedOrFull ==
    (/\ pc = "lmdb_put"
     /\ \/ cfg.problems \in {<<"M3SAT">>, <<"SP">>}
        \/ \A cl \in DOMAIN all_problems : Len(all_problems[cl]) = n_problems)
        => RowsParallel

\* A list that does not truncate reaches put_samples with a short class.
C12_ShortBatchNotTruncated ==
    /\ pc = "lmdb_put"
    /\ cfg.problems \notin {<<"M3SAT">>, <<"SP">>}
    /\ \E cl \in DOMAIN all_problems : Len(all_problems[cl]) < n_problems
    /\ Rows(data) > Rows(all_problems_flat)

(***************************************************************************)
(* C13.  With the problem list ["QA"] and block size s, the customizer     *)
(* replaces every matrix d by the vector of the (s(s-1)/2)^2 entries       *)
(* d[i*s + a][j*s + b] with i < j and a < b, block pairs (i, j) in         *)
(* row-major order and, inside a block, (a, b) in row-major order; the     *)
(* number of records and their order do not change.                        *)
(***************************************************************************)
UpperRank(i, j, s) ==
    Cardinality({e \in (0..(s - 1)) \X (0..(s - 1)) :
                    /\ e[1] < e[2]
                    /\ e[1] < i \/ (e[1] = i /\ e[2] < j)})

C13_QAKeepsStrictUpperBlocks ==
    [][(pc = "gen_done" /\ cfg.problems = <<"QA">>) =>
          LET s == cfg.size
              T == (s * (s - 1)) \div 2
          IN  /\ DOMAIN data' = DOMAIN data
              /\ labels' = labels
              /\ all_problems' = all_problems
              /\ \A k \in DOMAIN data :
                    /\ DOMAIN data'[k] = 0..(T * T - 1)
                    /\ \A i \in 0..(s - 1), j \in 0..(s - 1),
                          a \in 0..(s - 1), b \in 0..(s - 1) :
                          (i < j /\ a < b) =>
                              data'[k][UpperRank(i, j, s) * T + UpperRank(a, b, s)]
                                  = data[k][i * s + a][j * s + b]]_vars

\* A matrix of pairwise distinct entries with three blocks per side has
\* been reduced: the vector has at least 9 entries, pairwise distinct, and
\* a second record follows it.
C13_Witness ==
    /\ pc = "flat_start"
    /\ cfg.problems = <<"QA">>
    /\ cfg.size >= 3
    /\ Rows(data) >= 2
    /\ Rows(data[0]) >= 9
    /\ \A x \in DOMAIN data[0], y \in DOMAIN data[0] :
          x # y => data[0][x] # data[0][y]

====
